---- MODULE Spec2Model ----
(***************************************************************************)
(* A model of the training/evaluation orchestration of EMBer:              *)
(*   src/src/lit_cli.py                  LitCLI.before_fit / after_fit      *)
(*   src/src/modules/mmtsmatcher.py      collate_fn, MMTSMatcher.common_step*)
(*   src/src/datamodules/alidatamodule.py  ALIDataset, AliDataModule        *)
(*   src/src/datamodules/wdcdatamodule.py  WDCDataset                       *)
(*                                                                         *)
(* Python strings that the code builds or transforms (names, versions) are *)
(* sequences of one-character strings, so that concatenation, lower() and  *)
(* strftime are computed, not assumed.  An optional value (None, or an     *)
(* attribute an object may lack) is <<>> when absent and <<v>> when        *)
(* present.                                                                *)
(***************************************************************************)
EXTENDS Integers, Sequences, FiniteSets, TLC

VARIABLES
    \* ---- LitCLI.before_fit (src/src/lit_cli.py:57-99)
    model,          \* self.model: [type, attrs]
    datamodule,     \* self.datamodule: None or [type, attrs]
    shared_attrs,   \* self.shared_attrs: a list of attribute names
    logger,         \* self.trainer.logger
    env,            \* os.environ: the value of PL_EXP_VERSION, if set
    config,         \* self.config["trainer"]: the two tuner switches
    tuned,          \* number of self.trainer.tune calls
    fit,            \* position of the run and what before_fit observed/printed
    \* ---- LitCLI.after_fit (src/src/lit_cli.py:101-123)
    best_model_path,\* self.trainer.checkpoint_callback.best_model_path
    calls,          \* the trainer/IO calls after_fit has made, in order
    stdout,         \* what after_fit printed
    metrics_json,   \* log_dir/metrics.json: None or its content
    after,          \* position of after_fit and the results it was handed
    \* ---- MMTSMatcher.common_step (src/src/modules/mmtsmatcher.py:152-177)
    error_cases,    \* log_dir/error_cases_test.json: its lines, in file order
    metrics,        \* updates taken by self.{train,valid,test}_metrics
    appended,       \* the raw records written to error_cases so far (history)
    pending,        \* the batch the trainer is about to hand to a *_step, or None
    last,           \* the last common_step call: its phase and outcome
    \* ---- collate_fn (src/src/modules/mmtsmatcher.py:44-75)
    collate_in,     \* the arguments of the call
    collate_out,    \* what the call returned, or the error it raised
    \* ---- ALIDataset (src/src/datamodules/alidatamodule.py:20-78) and
    \* ---- WDCDataset (src/src/datamodules/wdcdatamodule.py:15-63)
    dataset,        \* the dataset object: its class and the fields __init__ set
    corpus,         \* ALI: the lines of the file; WDC: the rows of the dataframe
    imgs,           \* the image directory: file name -> state of the file
    linecache,      \* linecache's cache entry for the corpus file, if any
    got,            \* the last __getitem__ call: its index and outcome
    \* ---- AliDataModule.prepare_data (src/src/datamodules/alidatamodule.py:107-158)
    hparams,        \* self.cate_name, self.cate_level_name, self.prod_num
    fs,             \* ../data/ali: path -> None, or the content of the file
    source,         \* whether the source table can be read
    prep            \* the last prepare_data call: what it did and how it ended

cliVars   == <<model, datamodule, shared_attrs, logger, env, config, tuned, fit>>
afterVars == <<best_model_path, calls, stdout, metrics_json, after>>
stepVars  == <<error_cases, metrics, appended, pending, last>>
collateVars == <<collate_in, collate_out>>
dataVars  == <<dataset, corpus, imgs, linecache, got>>
prepVars  == <<hparams, fs, source, prep>>
vars      == <<cliVars, afterVars, stepVars, collateVars, dataVars, prepVars>>

----------------------------------------------------------------------------
(* Optional values and strings                                             *)

None      == <<>>
Some(v)   == <<v>>
Get(o)    == o[1]
IsSome(o) == o # <<>>

UPPER == <<"A","B","C","D","E","F","G","H","I","J","K","L","M",
           "N","O","P","Q","R","S","T","U","V","W","X","Y","Z">>
LOWER == <<"a","b","c","d","e","f","g","h","i","j","k","l","m",
           "n","o","p","q","r","s","t","u","v","w","x","y","z">>

\* str.lower(), character by character.
LowerChar(c) ==
    IF \E i \in 1..Len(UPPER) : UPPER[i] = c
    THEN LOWER[CHOOSE i \in 1..Len(UPPER) : UPPER[i] = c]
    ELSE c

Lower(s) == [i \in 1..Len(s) |-> LowerChar(s[i])]

\* Truthiness of a str that may be None (lit_cli.py:79, 90).
Truthy(o) == IsSome(o) /\ Len(Get(o)) > 0

DIGITS == <<"0","1","2","3","4","5","6","7","8","9">>

\* "%02d" of strftime's %m %d %H %M %S fields.
Pad2(n) == <<DIGITS[(n \div 10) + 1], DIGITS[(n % 10) + 1]>>

\* datetime.strftime("%m%d-%H%M%S")
Strftime(now) ==
    Pad2(now.month) \o Pad2(now.day) \o <<"-">>
        \o Pad2(now.hour) \o Pad2(now.minute) \o Pad2(now.second)

----------------------------------------------------------------------------
(* json.dumps(record, indent=2) and its inverse                            *)
(*                                                                         *)
(* A raw record is a Python dict: a sequence of [k, v] items in insertion  *)
(* order.  JSON text is a sequence of lines, a line a sequence of tokens.  *)

RECURSIVE IntStr(_)
IntStr(n) == IF n < 10 THEN DIGITS[n + 1] ELSE IntStr(n \div 10) \o DIGITS[(n % 10) + 1]

Quote(s) == "\"" \o s \o "\""

\* The fields the corpora use, and the values the model gives them.
IntFields == {"id", "label", "id_left", "id_right"}
StrFields == {"title_left", "title_right"}
IntValues == 0..2
StrValues == {"tv", "cam"}

\* A value as a JSON literal: a decimal number or a quoted string.
Literal(item) == IF item.k \in StrFields THEN Quote(item.v) ELSE IntStr(item.v)

\* One `"key": value` line of an indented object, with its trailing comma.
ItemLine(item, isLast) ==
    <<"  ", Quote(item.k), ":", " ", Literal(item)>> \o (IF isLast THEN <<>> ELSE <<",">>)

\* One line of a corpus file: a JSON object written without indentation.
CorpusLine(record) ==
    LET RECURSIVE items(_)
        items(i) == IF i > Len(record) THEN <<>>
                    ELSE <<Quote(record[i].k), ":", " ", Literal(record[i])>>
                         \o (IF i < Len(record) THEN <<",", " ">> ELSE <<>>)
                         \o items(i + 1)
    IN  <<"{">> \o items(1) \o <<"}">>

\* json.dumps(record) + "\n" without indent=2: the whole object on one line.
JsonDumpsNoIndent(record) == << CorpusLine(record) >>

\* json.dumps(record, ensure_ascii=False, indent=2, cls=NumpyEncoder) + "\n",
\* mmtsmatcher.py:167, as the lines it adds to a file.
JsonDumps(record) ==
    IF Len(record) = 0 THEN << <<"{", "}">> >>
    ELSE << <<"{">> >>
         \o [i \in 1..Len(record) |-> ItemLine(record[i], i = Len(record))]
         \o << <<"}">> >>

\* raw[name] of a record that has the field.
Field(raw, name) == raw[CHOOSE i \in 1..Len(raw) : raw[i].k = name].v

IsSpace(t) == t \in {" ", "  "}

NotSpace(t) == ~IsSpace(t)

\* The members between the braces of a flat object: key : value (, key : value)*
IsKey(t)    == \E k \in IntFields \cup StrFields : Quote(k) = t
IsNumber(t) == \E v \in IntValues : IntStr(v) = t
IsString(t) == \E v \in StrValues : Quote(v) = t

\* The members between the braces of a flat object: key : value (, key : value)*
RECURSIVE ParseMembers(_)
ParseMembers(ts) ==
    IF Len(ts) < 3 THEN None
    ELSE IF ~(IsKey(ts[1]) /\ ts[2] = ":" /\ (IsNumber(ts[3]) \/ IsString(ts[3])))
    THEN None
    ELSE LET key  == CHOOSE k \in IntFields \cup StrFields : Quote(k) = ts[1]
             item == IF IsNumber(ts[3])
                     THEN [k |-> key, v |-> CHOOSE v \in IntValues : IntStr(v) = ts[3]]
                     ELSE [k |-> key, v |-> CHOOSE v \in StrValues : Quote(v) = ts[3]]
         IN  IF Len(ts) = 3 THEN Some(<<item>>)
             ELSE IF ts[4] # "," THEN None
             ELSE LET rest == ParseMembers(SubSeq(ts, 5, Len(ts)))
                  IN  IF rest = None THEN None ELSE Some(<<item>> \o Get(rest))

\* json.loads of a token sequence holding one flat object and nothing else.
JsonLoads(tokens) ==
    LET ts == SelectSeq(tokens, NotSpace)
    IN  IF Len(ts) < 2 \/ ts[1] # "{" \/ ts[Len(ts)] # "}" THEN None
        ELSE IF Len(ts) = 2 THEN Some(<<>>)
        ELSE ParseMembers(SubSeq(ts, 2, Len(ts) - 1))

\* All tokens of a sequence of lines (a newline is white space between tokens).
RECURSIVE Flatten(_)
Flatten(lines) == IF lines = <<>> THEN <<>> ELSE Head(lines) \o Flatten(Tail(lines))

\* A file read as a stream of concatenated JSON documents: the records, in
\* order, or None when some part of it is not a flat object.
RECURSIVE LoadDocuments(_)
LoadDocuments(tokens) ==
    LET ts == SelectSeq(tokens, NotSpace)
    IN  IF ts = <<>> THEN Some(<<>>)
        ELSE IF ~\E i \in 1..Len(ts) : ts[i] = "}" THEN None
        ELSE LET close == CHOOSE i \in 1..Len(ts) :
                             ts[i] = "}" /\ \A j \in 1..(i - 1) : ts[j] # "}"
                 doc   == JsonLoads(SubSeq(ts, 1, close))
                 rest  == LoadDocuments(SubSeq(ts, close + 1, Len(ts)))
             IN  IF doc = None \/ rest = None THEN None
                 ELSE Some(<<Get(doc)>> \o Get(rest))

----------------------------------------------------------------------------
(* LitCLI.before_fit                                                       *)

MaxShared == 2

AttrNames == {"transforms", "version"}

ModelTypes == {<<"M","t">>}
DataTypes  == {<<"A","d">>}

\* Values the model's and the data module's attributes may hold.
ModelAttrValues(a) ==
    IF a = "version" THEN {<<>>, <<"L","r">>} ELSE {<<"t","1">>}
DataAttrValues(a) ==
    IF a = "version" THEN {<<>>, <<"E","5">>} ELSE {<<"t","1">>, <<"t","2">>}

ModelAttrs == {f \in [AttrNames -> {None} \cup {Some(v) : v \in UNION {ModelAttrValues(a) : a \in AttrNames}}] :
                 \A a \in AttrNames : IsSome(f[a]) => Get(f[a]) \in ModelAttrValues(a)}
DataAttrs  == {f \in [AttrNames -> {None} \cup {Some(v) : v \in UNION {DataAttrValues(a) : a \in AttrNames}}] :
                 \A a \in AttrNames : IsSome(f[a]) => Get(f[a]) \in DataAttrValues(a)}

SharedLists == UNION {[1..n -> AttrNames] : n \in 0..MaxShared}

Loggers == {[collection |-> c, has_version |-> h, _name |-> <<"d","f">>, _version |-> v] :
              c \in BOOLEAN, h \in BOOLEAN, v \in {None, Some(<<"V","0">>)}}

EnvValues == {None, Some(<<>>), Some(<<"X","7">>)}

Nows == {[month |-> 1, day |-> 2, hour |-> 3, minute |-> 4, second |-> 5],
         [month |-> 11, day |-> 6, hour |-> 12, minute |-> 40, second |-> 59]}

\* hasattr(obj, attr)
HasAttr(attrs, a) == IsSome(attrs[a])

\* One round of the loop body, lit_cli.py:61-65, on the pair (model, datamodule).
ShareAttrOverwrite(p, attr) ==
    IF HasAttr(p.m, attr) THEN [p EXCEPT !.d[attr] = p.m[attr]] ELSE p

ShareAttr(p, attr) ==
    LET p1 == IF HasAttr(p.m, attr) /\ ~HasAttr(p.d, attr)
              THEN [p EXCEPT !.d[attr] = p.m[attr]] ELSE p
    IN  IF HasAttr(p1.d, attr) /\ ~HasAttr(p1.m, attr)
        THEN [p1 EXCEPT !.m[attr] = p1.d[attr]] ELSE p1

\* for attr in self.shared_attrs: ...
RECURSIVE ShareAttrs(_, _)
ShareAttrs(p, attrs) ==
    IF attrs = <<>> THEN p
    ELSE ShareAttrs(ShareAttr(p, Head(attrs)), Tail(attrs))

\* lit_cli.py:69-70
ExpName(m, dm) ==
    m.type \o <<"_">> \o (IF dm # None THEN Get(dm).type ELSE <<>>)

\* lit_cli.py:72-74
DataVersion(dm) ==
    IF dm # None /\ HasAttr(Get(dm).attrs, "version")
    THEN Get(dm).attrs["version"] ELSE None

\* lit_cli.py:76-77: `version += ...` on None raises TypeError
ModelVersionRaises(version, mattrs) ==
    HasAttr(mattrs, "version") /\ version = None

WithModelVersion(version, mattrs) ==
    IF HasAttr(mattrs, "version")
    THEN Some(Get(version) \o <<"_">> \o Get(mattrs["version"]))
    ELSE version

\* lit_cli.py:79-81
WithTimestamp(version, now) ==
    IF Truthy(version) THEN Some(Get(version) \o <<"_">> \o Strftime(now))
    ELSE version

\* lit_cli.py:88-92
SetsVersionIgnoringEnv(lg, version, envv) ==
    lg.has_version /\ Truthy(version)

SetsVersion(lg, version, envv) ==
    lg.has_version /\ Truthy(version) /\ ~Truthy(envv)

\* lit_cli.py:86-93
UpdateLogger(lg, exp_name, version, envv) ==
    IF ~lg.collection
    THEN [lg EXCEPT !._name = Lower(exp_name),
                    !._version = IF SetsVersion(lg, version, envv)
                                 THEN Some(Lower(Get(version))) ELSE @]
    ELSE lg

\* lit_cli.py:95-98
NeedsTune(cfg) == cfg.auto_lr_find \/ cfg.auto_scale_batch_size

InitFit ==
    /\ model \in {[type |-> t, attrs |-> a] : t \in ModelTypes, a \in ModelAttrs}
    /\ datamodule \in {None} \cup
                      {Some([type |-> t, attrs |-> a]) : t \in DataTypes, a \in DataAttrs}
    /\ shared_attrs \in SharedLists
    /\ logger \in Loggers
    /\ env \in EnvValues
    /\ config \in [auto_lr_find : BOOLEAN, auto_scale_batch_size : BOOLEAN]
    /\ tuned = 0
    /\ fit = [pc |-> "constructed", exp_name |-> None, version |-> None, now |-> None,
              model0 |-> model, datamodule0 |-> datamodule, logger0 |-> logger]

before_fit ==
    /\ fit.pc = "constructed"
    /\ \E now \in Nows :
        LET shared   == IF datamodule # None
                        THEN ShareAttrs([m |-> model.attrs, d |-> Get(datamodule).attrs],
                                        shared_attrs)
                        ELSE [m |-> model.attrs, d |-> model.attrs]
            model1   == [model EXCEPT !.attrs = shared.m]
            dm1      == IF datamodule # None
                        THEN Some([Get(datamodule) EXCEPT !.attrs = shared.d])
                        ELSE None
            exp_name == ExpName(model1, dm1)
            v0       == DataVersion(dm1)
            raises   == ModelVersionRaises(v0, model1.attrs)
            version  == WithTimestamp(WithModelVersion(v0, model1.attrs), now)
        IN  /\ model' = model1
            /\ datamodule' = dm1
            /\ IF raises
               THEN /\ fit' = [fit EXCEPT !.pc = "raised", !.now = Some(now)]
                    /\ UNCHANGED <<logger, tuned>>
               ELSE /\ logger' = UpdateLogger(logger, exp_name, version, env)
                    /\ tuned' = IF NeedsTune(config) THEN tuned + 1 ELSE tuned
                    /\ fit' = [fit EXCEPT !.pc = "returned", !.now = Some(now),
                                          !.exp_name = Some(exp_name),
                                          !.version = version]
    /\ UNCHANGED <<shared_attrs, env, config>>
    /\ UNCHANGED <<afterVars, stepVars, collateVars, dataVars, prepVars>>

----------------------------------------------------------------------------
(* LitCLI.after_fit                                                        *)

MaxLoaders == 2

MetricKeys   == {"valid_f1", "test_f1"}
MetricValues == {75, 80}

\* One result mapping of trainer.validate / trainer.test: metric name -> value.
ResultDicts == UNION {[S -> MetricValues] : S \in SUBSET MetricKeys}

\* trainer.validate and trainer.test return a list with one mapping per dataloader.
ResultLists == UNION {[1..n -> ResultDicts] : n \in 0..MaxLoaders}

BestPaths == {"", "epoch=01-valid_f1=75.00%.ckpt", "epoch=02-valid_f1=80.00%.ckpt"}

\* dict(ChainMap(*maps)), lit_cli.py:117: a ChainMap looks a key up in its
\* mappings from first to last and returns the first hit.
ChainMapLastWins(maps) ==
    LET keys == UNION {DOMAIN maps[i] : i \in 1..Len(maps)}
        lastIdx(k) == CHOOSE i \in 1..Len(maps) :
                      /\ k \in DOMAIN maps[i]
                      /\ \A j \in 1..Len(maps) : k \in DOMAIN maps[j] => j <= i
    IN  [k \in keys |-> maps[lastIdx(k)][k]]

ChainMap(maps) ==
    LET keys == UNION {DOMAIN maps[i] : i \in 1..Len(maps)}
        firstIdx(k) == CHOOSE i \in 1..Len(maps) :
                      /\ k \in DOMAIN maps[i]
                      /\ \A j \in 1..Len(maps) : k \in DOMAIN maps[j] => i <= j
    IN  [k \in keys |-> maps[firstIdx(k)][k]]

\* The calls of lit_cli.py:114-123, in program order.
EvalCallsTestFirst(ckpt_path) ==
    << [op |-> "test", ckpt_path |-> ckpt_path],
       [op |-> "validate", ckpt_path |-> ckpt_path],
       [op |-> "print", ckpt_path |-> ""],
       [op |-> "write metrics.json", ckpt_path |-> ""] >>

EvalCalls(ckpt_path) ==
    << [op |-> "validate", ckpt_path |-> ckpt_path],
       [op |-> "test", ckpt_path |-> ckpt_path],
       [op |-> "print", ckpt_path |-> ""],
       [op |-> "write metrics.json", ckpt_path |-> ""] >>

\* lit_cli.py:102: `if best_model_path:`
HasCheckpoint(path) == path # ""

InitAfter ==
    /\ best_model_path \in BestPaths
    /\ calls = <<>>
    /\ stdout = None
    /\ metrics_json = None
    /\ after = [pc |-> "fitted", val_results |-> <<>>, test_results |-> <<>>]

after_fit ==
    /\ after.pc = "fitted"
    /\ IF HasCheckpoint(best_model_path)
       THEN \E val_results \in ResultLists, test_results \in ResultLists :
              LET ckpt_path == best_model_path
                  results   == ChainMap(val_results \o test_results)
              IN  /\ calls' = calls \o EvalCalls(ckpt_path)
                  /\ stdout' = Some(results)
                  /\ metrics_json' = Some(results)
                  /\ after' = [pc |-> "returned", val_results |-> val_results,
                               test_results |-> test_results]
       ELSE /\ after' = [after EXCEPT !.pc = "returned"]
            /\ UNCHANGED <<calls, stdout, metrics_json>>
    /\ UNCHANGED best_model_path
    /\ UNCHANGED <<cliVars, stepVars, collateVars, dataVars, prepVars>>

----------------------------------------------------------------------------
(* MMTSMatcher.common_step                                                 *)

MaxBatch  == 2
MaxSteps  == 2
MaxErrors == 3

\* Raw records as the datasets hand them on; every one has a label
\* (collate_fn reads it, mmtsmatcher.py:54).
RawRecords == { << [k |-> "label", v |-> 0] >>,
                << [k |-> "id", v |-> 1], [k |-> "label", v |-> 1] >> }

\* softmax outputs of the two classes, in percent.
Probs == { <<70, 30>>, <<30, 70>> }

\* y.loss of the batch; its value plays no part in what common_step does, so
\* one value stands for it (0 is kept for "nothing returned").
Losses == {1}

Steps == {"train", "valid", "test"}

\* A batch as common_step unpacks it: row[i] and the model's probs[i].
Batches == UNION {[1..n -> [raw : RawRecords, probs : Probs]] : n \in 1..MaxBatch}

\* raw["label"], as collate_fn builds the labels tensor (mmtsmatcher.py:54).
Label(raw) == Field(raw, "label")

\* probs.argmax(dim=-1) (0-based class; the first maximum on a tie).
Argmax(p) == (CHOOSE c \in 1..Len(p) :
                 /\ \A d \in 1..Len(p) : p[d] <= p[c]
                 /\ \A d \in 1..(c - 1) : p[d] < p[c]) - 1

RECURSIVE Positions(_, _)
Positions(from, to) == IF from > to THEN <<>> ELSE <<from>> \o Positions(from + 1, to)

\* The sample at 0-based index i of a batch.
At(batch, i) == batch[i + 1]

\* torch.nonzero(torch.ne(preds, labels)).squeeze(dim=-1).tolist(),
\* mmtsmatcher.py:164-168: the 0-based indices of the mismatches, ascending.
ErrorIndicesMatches(batch) ==
    LET Hit(i) == Argmax(At(batch, i).probs) = Label(At(batch, i).raw)
    IN  SelectSeq(Positions(0, Len(batch) - 1), Hit)

ErrorIndices(batch) ==
    LET Miss(i) == Argmax(At(batch, i).probs) # Label(At(batch, i).raw)
    IN  SelectSeq(Positions(0, Len(batch) - 1), Miss)

\* The list error_cases of mmtsmatcher.py:166-169: one serialized record per
\* mismatch, and the lines f.writelines(error_cases) adds.
ErrorRecords(batch) ==
    [n \in 1..Len(ErrorIndices(batch)) |-> At(batch, ErrorIndices(batch)[n]).raw]

ErrorCases(batch) ==
    [n \in 1..Len(ErrorRecords(batch)) |-> JsonDumps(ErrorRecords(batch)[n])]

\* Only the test phase writes error cases, mmtsmatcher.py:163.
WritesErrorCases(step) == step = "test"

NoCall == [step |-> "none", outcome |-> "none", loss |-> 0, errors |-> <<>>]

InitStep ==
    /\ error_cases = <<>>
    /\ metrics = [s \in Steps |-> 0]
    /\ appended = <<>>
    /\ pending = None
    /\ last = NoCall

StepsTaken == metrics["train"] + metrics["valid"] + metrics["test"]

\* The trainer's loop takes the next batch of a phase's dataloader and runs
\* the model on it; the phase's *_step hook is called with it next.
next_batch ==
    /\ pending = None
    /\ StepsTaken < MaxSteps
    /\ \E step \in Steps, batch \in Batches :
         /\ WritesErrorCases(step)
              => Len(appended) + Len(ErrorIndices(batch)) <= MaxErrors
         /\ pending' = Some([step |-> step, batch |-> batch])
    /\ UNCHANGED <<error_cases, metrics, appended, last>>
    /\ UNCHANGED <<cliVars, afterVars, collateVars, dataVars, prepVars>>

\* common_step(batch, step), mmtsmatcher.py:152-177.  `opened` is whether
\* errors_cases_file.open("a") succeeds; it raises OSError otherwise, which
\* common_step does not catch.
CommonStep(batch, step) ==
    \E loss \in Losses, opened \in BOOLEAN :
        /\ ~WritesErrorCases(step) => opened
        /\ metrics' = [metrics EXCEPT ![step] = @ + 1]
        /\ IF WritesErrorCases(step) /\ opened
           THEN /\ error_cases' = error_cases \o Flatten(ErrorCases(batch))
                /\ appended' = appended \o ErrorRecords(batch)
           ELSE UNCHANGED <<error_cases, appended>>
        /\ last' = [step |-> step,
                    outcome |-> IF opened THEN "returned" ELSE "OSError",
                    loss |-> IF opened THEN loss ELSE 0,
                    errors |-> IF WritesErrorCases(step) THEN ErrorIndices(batch) ELSE <<>>]
        /\ pending' = None

\* mmtsmatcher.py:179-186
training_step ==
    /\ pending # None /\ Get(pending).step = "train"
    /\ CommonStep(Get(pending).batch, "train")
    /\ UNCHANGED <<cliVars, afterVars, collateVars, dataVars, prepVars>>

validation_step ==
    /\ pending # None /\ Get(pending).step = "valid"
    /\ CommonStep(Get(pending).batch, "valid")
    /\ UNCHANGED <<cliVars, afterVars, collateVars, dataVars, prepVars>>

test_step ==
    /\ pending # None /\ Get(pending).step = "test"
    /\ CommonStep(Get(pending).batch, "test")
    /\ UNCHANGED <<cliVars, afterVars, collateVars, dataVars, prepVars>>

----------------------------------------------------------------------------
(* collate_fn                                                              *)

CropSide == 224

\* The tensor get_transforms() makes of an image, mmtsmatcher.py:30-41:
\* resized, centre-cropped to CropSide, normalized; 3 channels.
Transform(image) == [shape |-> <<3, CropSide, CropSide>>, of |-> <<image>>]

\* torch.stack(tensors): a new leading dimension; RuntimeError (None here) on
\* an empty list and on tensors of different shapes.
TorchStack(tensors) ==
    IF tensors = <<>> THEN None
    ELSE IF \E i \in 1..Len(tensors) : tensors[i].shape # tensors[1].shape THEN None
    ELSE Some([shape |-> <<Len(tensors)>> \o tensors[1].shape, of |-> tensors])

\* mmtsmatcher.py:58-59
EffectiveMaxLength(max_length, num_image_embeds) ==
    IF IsSome(max_length) /\ Get(max_length) # 0
    THEN Some(Get(max_length) - 2 * num_image_embeds - 1)
    ELSE max_length

\* mmtsmatcher.py:70-73: None when a torch.stack raises.
InputModals(batch) ==
    LET images == [i \in 1..Len(batch) |-> batch[i].images]
    IN  IF images[1] # <<>>
        THEN LET inner == [i \in 1..Len(batch) |-> TorchStack(images[i])]
             IN  IF \E i \in 1..Len(batch) : inner[i] = None THEN None
                 ELSE TorchStack([i \in 1..Len(batch) |-> Get(inner[i])])
        ELSE Some([shape |-> <<Len(batch), 0>>, of |-> <<>>])

SampleImages ==
    { <<>>,
      << Transform("left.jpg"), Transform("right.jpg") >> }

CollateSamples ==
    [texts : {<<"tv", "cam">>}, images : SampleImages, raw : RawRecords]

CollateBatches == UNION {[1..n -> CollateSamples] : n \in 1..MaxBatch}

InitCollate ==
    /\ collate_in \in [batch : CollateBatches,
                       max_length : {None, Some(256)},
                       num_image_embeds : {1, 2}]
    /\ collate_out = [pc |-> "ready", inputs |-> None, labels |-> <<>>, raws |-> <<>>]

\* collate_fn(batch, tokenizer, max_length, num_image_embeds)
collate_fn ==
    /\ collate_out.pc = "ready"
    /\ LET batch  == collate_in.batch
           raws   == [i \in 1..Len(batch) |-> batch[i].raw]
           labels == [i \in 1..Len(batch) |-> Label(raws[i])]
           inputs == [sent1 |-> [i \in 1..Len(batch) |-> batch[i].texts[1]],
                      sent2 |-> [i \in 1..Len(batch) |-> batch[i].texts[2]],
                      padding |-> TRUE, truncation |-> TRUE,
                      max_length |-> EffectiveMaxLength(collate_in.max_length,
                                                        collate_in.num_image_embeds)]
           modals == InputModals(batch)
       IN  collate_out' =
             IF modals = None
             THEN [pc |-> "RuntimeError", inputs |-> None, labels |-> <<>>, raws |-> <<>>]
             ELSE [pc |-> "returned",
                   inputs |-> Some([text |-> inputs, input_modals |-> Get(modals)]),
                   labels |-> labels, raws |-> raws]
    /\ UNCHANGED collate_in
    /\ UNCHANGED <<cliVars, afterVars, stepVars, dataVars, prepVars>>

----------------------------------------------------------------------------
(* ALIDataset and WDCDataset                                               *)

MaxLines == 2

FallbackSide  == 256
FallbackValue == 255

\* Image.fromarray(255 * np.ones((256, 256, 3), dtype=np.uint8)):
\* alidatamodule.py:67-69, wdcdatamodule.py:53-55.
WhiteImage == [source |-> "fromarray", mode |-> "RGB",
               size |-> <<FallbackSide, FallbackSide>>, fill |-> FallbackValue]

\* Image.open(path).convert("RGB") of a readable image file; fill -1: the
\* pixels are the file's.
FileImage(name) == [source |-> name, mode |-> "RGB", size |-> <<500, 375>>, fill |-> -1]

\* The records of the corpora.
PairRecords ==
    { << [k |-> "id_left", v |-> 1], [k |-> "title_left", v |-> "tv"],
         [k |-> "id_right", v |-> 2], [k |-> "title_right", v |-> "cam"],
         [k |-> "label", v |-> 0] >>,
      << [k |-> "id_left", v |-> 2], [k |-> "title_left", v |-> "cam"],
         [k |-> "id_right", v |-> 2], [k |-> "title_right", v |-> "cam"],
         [k |-> "label", v |-> 1] >> }

Corpora == UNION {[1..n -> PairRecords] : n \in 0..MaxLines}

\* The file of an ALI corpus: one JSON object per line.
FileOf(records) == [n \in 1..Len(records) |-> CorpusLine(records[n])]

\* The suffixes of the WDC image files <id>_<suffix>, in lexicographic order.
WdcSuffixes == <<"a", "b">>

AliFileNames == {IntStr(id) : id \in 1..2}
WdcFileNames == {IntStr(1) \o "_" \o "a", IntStr(1) \o "_" \o "b", IntStr(2) \o "_" \o "b"}

\* A file of the image directory is absent, a readable image, or present but
\* unreadable (truncated, not an image, no permission).
FileStates == {"absent", "image", "unreadable"}

\* linecache.getline(filename, lineno): the cached lines are read on the
\* first call; a lineno outside 1..len gives ''.
LinecacheLines(cache, file) == IF cache = None THEN file ELSE Get(cache)

GetlineZeroBased(lines, lineno) ==
    IF 0 <= lineno /\ lineno < Len(lines) THEN lines[lineno + 1] ELSE <<>>

Getline(lines, lineno) ==
    IF 1 <= lineno /\ lineno <= Len(lines) THEN lines[lineno] ELSE <<>>

\* self._dataframe.iloc[index]: a negative index counts from the end;
\* IndexError (None here) outside -len..len-1.  wdcdatamodule.py:31
Iloc(rows, index) ==
    IF 0 <= index /\ index < Len(rows) THEN Some(rows[index + 1])
    ELSE IF -Len(rows) <= index /\ index < 0 THEN Some(rows[Len(rows) + index + 1])
    ELSE None

\* alidatamodule.py:63-69: the file named str(id), if it exists.
\* The result is None when Image.open raises.
AliImage(dir, id) ==
    LET name == IntStr(id)
    IN  IF name \in DOMAIN dir /\ dir[name] # "absent"
        THEN (IF dir[name] = "image" THEN Some(FileImage(name)) ELSE None)
        ELSE Some(WhiteImage)

\* sorted(self._imgs_dir.glob(f"{id}_*")), wdcdatamodule.py:45
WdcGlob(dir, id) ==
    LET Matches(n) == LET name == IntStr(id) \o "_" \o WdcSuffixes[n]
                      IN  name \in DOMAIN dir /\ dir[name] # "absent"
        idx == SelectSeq(Positions(1, Len(WdcSuffixes)), Matches)
    IN  [n \in 1..Len(idx) |-> IntStr(id) \o "_" \o WdcSuffixes[idx[n]]]

\* wdcdatamodule.py:44-55
WdcImage(dir, id) ==
    LET img_paths == WdcGlob(dir, id)
    IN  IF img_paths # <<>>
        THEN (IF dir[img_paths[1]] = "image" THEN Some(FileImage(img_paths[1])) ELSE None)
        ELSE Some(WhiteImage)

Sides == <<"left", "right">>

\* The loop over the two sides of __getitem__ (alidatamodule.py:53-73,
\* wdcdatamodule.py:38-58): the texts, and with use_image the two
\* transformed images; failed is whether an Image.open raised.
Sample(ds, dir, raw) ==
    LET image(n) == IF ds.class = "ALIDataset"
                    THEN AliImage(dir, Field(raw, "id_" \o Sides[n]))
                    ELSE WdcImage(dir, Field(raw, "id_" \o Sides[n]))
    IN  [raw    |-> raw,
         texts  |-> [n \in 1..2 |-> Field(raw, "title_" \o Sides[n])],
         images |-> IF ds._use_image /\ \A n \in 1..2 : image(n) # None
                    THEN [n \in 1..2 |-> Transform(Get(image(n)))] ELSE <<>>,
         failed |-> ds._use_image /\ \E n \in 1..2 : image(n) = None]

\* __len__: alidatamodule.py:77-78 (the lines __init__ counted, 30-32),
\* wdcdatamodule.py:62-63.
DatasetLen(ds) == ds._num_lines

NoItem == [index |-> 0, outcome |-> "none", sample |-> None]

InitData ==
    /\ corpus \in Corpora
    /\ dataset \in {[class |-> c, _use_image |-> u, _num_lines |-> Len(corpus)] :
                      c \in {"ALIDataset", "WDCDataset"}, u \in BOOLEAN}
    /\ imgs \in [IF dataset.class = "ALIDataset" THEN AliFileNames ELSE WdcFileNames
                   -> FileStates]
    /\ linecache = None
    /\ got = NoItem

\* The indices a caller may pass: all of the valid ones and some on each side.
Indices == (0 - MaxLines - 1)..(MaxLines + 1)

\* ALIDataset.__getitem__(index), alidatamodule.py:39-75
ali_getitem ==
    /\ dataset.class = "ALIDataset"
    /\ \E index \in Indices :
         LET lines == LinecacheLines(linecache, FileOf(corpus))
             line  == Getline(lines, index + 1)
             raw   == JsonLoads(line)
         IN  /\ linecache' = Some(lines)
             /\ got' = IF raw = None
                       THEN [index |-> index, outcome |-> "JSONDecodeError", sample |-> None]
                       ELSE LET res == Sample(dataset, imgs, Get(raw))
                            IN  IF res.failed
                                THEN [index |-> index, outcome |-> "OSError", sample |-> None]
                                ELSE [index |-> index, outcome |-> "returned",
                                      sample |-> Some([raw |-> res.raw, texts |-> res.texts,
                                                       images |-> res.images])]
    /\ UNCHANGED <<dataset, corpus, imgs>>
    /\ UNCHANGED <<cliVars, afterVars, stepVars, collateVars, prepVars>>

\* WDCDataset.__getitem__(index), wdcdatamodule.py:30-60
wdc_getitem ==
    /\ dataset.class = "WDCDataset"
    /\ \E index \in Indices :
         LET raw == Iloc(corpus, index)
         IN  got' = IF raw = None
                    THEN [index |-> index, outcome |-> "IndexError", sample |-> None]
                    ELSE LET res == Sample(dataset, imgs, Get(raw))
                         IN  IF res.failed
                             THEN [index |-> index, outcome |-> "OSError", sample |-> None]
                             ELSE [index |-> index, outcome |-> "returned",
                                   sample |-> Some([raw |-> res.raw, texts |-> res.texts,
                                                    images |-> res.images])]
    /\ UNCHANGED <<dataset, corpus, imgs, linecache>>
    /\ UNCHANGED <<cliVars, afterVars, stepVars, collateVars, prepVars>>

----------------------------------------------------------------------------
(* AliDataModule.prepare_data                                              *)

MaxPrepares == 2

DefaultProdNum == 200
TestSize       == 5000

\* str.replace("/", "_")
Replace(s) == [i \in 1..Len(s) |-> IF s[i] = "/" THEN "_" ELSE s[i]]

\* alidatamodule.py:118-123: "_" + name.replace("/", "_") if name else "".
NamePart(name) == IF Truthy(name) THEN <<"_">> \o Replace(Get(name)) ELSE <<>>

\* alidatamodule.py:125-130: the file names under ../data/ali, as the pieces
\* the f-string joins.
DataPath(h) ==
    <<"dataset">> \o NamePart(h.cate_level_name) \o NamePart(h.cate_name)
        \o <<"_", IntStr(h.prod_num), ".json">>

TestPath(h) ==
    <<"testset">> \o NamePart(h.cate_level_name) \o NamePart(h.cate_name)
        \o <<"_", IntStr(h.prod_num), ".json">>

\* The hyperparameters __init__ stores (alidatamodule.py:95-97).
CateNames      == {None, Some(<<"a", "/", "b">>)}
CateLevelNames == {None, Some(<<"c">>)}
ProdNums       == {DefaultProdNum}
Hparams        == [cate_name : CateNames, cate_level_name : CateLevelNames,
                   prod_num : ProdNums]

\* What a file holds: who wrote it and from which arguments.
Content(by, h, size) ==
    [by |-> by, cate_name |-> h.cate_name, cate_level_name |-> h.cate_level_name,
     num |-> h.prod_num, size |-> size]

\* Files left by an earlier run: built for other arguments, or cut short.
EarlierContents(h) ==
    { Content("earlier", [h EXCEPT !.prod_num = 0], None),
      Content("truncated", h, None) }

\* Path.exists()
Exists(files, path) == files[path] # None

\* alidatamodule.py:132: whether the source table is read.
NeedsSource(files, data_path, test_path) ==
    ~Exists(files, data_path) \/ ~Exists(files, test_path)

\* A prepare_data that rebuilds a file whether or not it exists.
NeedsBuildAlways(files, path) == TRUE

\* alidatamodule.py:141 and 150: whether build_dataset is called for a path.
NeedsBuild(files, path) == ~Exists(files, path)

\* build_dataset(df, cate_name=, cate_level_name=, num=, path=[, size=]): its
\* code is not among the sources; it writes a corpus file at `path`, whatever
\* was there before.
BuildDataset(files, h, path, size) ==
    [files EXCEPT ![path] = Some(Content("build_dataset", h, size))]

NoPrepare == [pc |-> "constructed", n |-> 0, read |-> FALSE, built |-> <<>>,
              before |-> <<>>]

InitPrep ==
    /\ hparams \in Hparams
    /\ fs \in [{DataPath(hparams), TestPath(hparams)}
                 -> {None} \cup {Some(c) : c \in EarlierContents(hparams)}]
    /\ source \in BOOLEAN
    /\ prep = NoPrepare

\* AliDataModule.prepare_data(), alidatamodule.py:107-158.  pd.read_csv
\* raises FileNotFoundError when the source table cannot be read.
prepare_data ==
    /\ prep.n < MaxPrepares
    /\ LET data_path == DataPath(hparams)
           test_path == TestPath(hparams)
           read      == NeedsSource(fs, data_path, test_path)
           build1    == NeedsBuild(fs, data_path)
           fs1       == IF build1 THEN BuildDataset(fs, hparams, data_path, None) ELSE fs
           build2    == NeedsBuild(fs1, test_path)
           fs2       == IF build2
                        THEN BuildDataset(fs1, hparams, test_path, Some(TestSize))
                        ELSE fs1
       IN  IF ~read
           THEN /\ prep' = [pc |-> "returned", n |-> prep.n + 1, read |-> FALSE,
                            built |-> <<>>, before |-> fs]
                /\ UNCHANGED fs
           ELSE IF ~source
           THEN /\ prep' = [pc |-> "FileNotFoundError", n |-> prep.n + 1,
                            read |-> TRUE, built |-> <<>>, before |-> fs]
                /\ UNCHANGED fs
           ELSE /\ prep' = [pc |-> "returned", n |-> prep.n + 1, read |-> TRUE,
                            built |-> (IF build1 THEN <<data_path>> ELSE <<>>)
                                      \o (IF build2 THEN <<test_path>> ELSE <<>>),
                            before |-> fs]
                /\ fs' = fs2
    /\ UNCHANGED <<hparams, source>>
    /\ UNCHANGED <<cliVars, afterVars, stepVars, collateVars, dataVars>>

----------------------------------------------------------------------------
(* Specifications: one per handler group; the groups share no state.       *)

IdleFit ==
    /\ model = [type |-> <<"M","t">>, attrs |-> [a \in AttrNames |-> None]]
    /\ datamodule = None
    /\ shared_attrs = <<>>
    /\ logger = [collection |-> FALSE, has_version |-> TRUE, _name |-> <<"d","f">>,
                 _version |-> None]
    /\ env = None
    /\ config = [auto_lr_find |-> FALSE, auto_scale_batch_size |-> FALSE]
    /\ tuned = 0
    /\ fit = [pc |-> "idle", exp_name |-> None, version |-> None, now |-> None,
              model0 |-> model, datamodule0 |-> datamodule, logger0 |-> logger]

IdleAfter ==
    /\ best_model_path = ""
    /\ calls = <<>>
    /\ stdout = None
    /\ metrics_json = None
    /\ after = [pc |-> "idle", val_results |-> <<>>, test_results |-> <<>>]

IdleStep ==
    /\ error_cases = <<>>
    /\ metrics = [s \in Steps |-> 0]
    /\ appended = <<>>
    /\ pending = None
    /\ last = NoCall

IdleCollate ==
    /\ collate_in = [batch |-> <<>>, max_length |-> None, num_image_embeds |-> 1]
    /\ collate_out = [pc |-> "idle", inputs |-> None, labels |-> <<>>, raws |-> <<>>]

IdlePrep ==
    /\ hparams = [cate_name |-> None, cate_level_name |-> None, prod_num |-> DefaultProdNum]
    /\ fs = <<>>
    /\ source = FALSE
    /\ prep = [NoPrepare EXCEPT !.pc = "idle", !.n = MaxPrepares]

IdleData ==
    /\ dataset = [class |-> "none", _use_image |-> FALSE, _num_lines |-> 0]
    /\ corpus = <<>>
    /\ imgs = <<>>
    /\ linecache = None
    /\ got = NoItem

NextFit == before_fit

StartFit == InitFit /\ IdleAfter /\ IdleStep /\ IdleCollate /\ IdleData /\ IdlePrep

SpecFit == StartFit /\ [][NextFit]_vars

NextAfter == after_fit

StartAfter == IdleFit /\ InitAfter /\ IdleStep /\ IdleCollate /\ IdleData /\ IdlePrep

SpecAfter == StartAfter /\ [][NextAfter]_vars

NextStep == next_batch \/ training_step \/ validation_step \/ test_step

StartStep == IdleFit /\ IdleAfter /\ InitStep /\ IdleCollate /\ IdleData /\ IdlePrep

SpecStep == StartStep /\ [][NextStep]_vars

NextCollate == collate_fn

NextData == ali_getitem \/ wdc_getitem

StartData == IdleFit /\ IdleAfter /\ IdleStep /\ IdleCollate /\ InitData /\ IdlePrep

SpecData == StartData /\ [][NextData]_vars

StartCollate == IdleFit /\ IdleAfter /\ IdleStep /\ InitCollate /\ IdleData /\ IdlePrep

SpecCollate == StartCollate /\ [][NextCollate]_vars

NextPrep == prepare_data

StartPrep == IdleFit /\ IdleAfter /\ IdleStep /\ IdleCollate /\ IdleData /\ InitPrep

SpecPrep == StartPrep /\ [][NextPrep]_vars

----------------------------------------------------------------------------
(* Claims about LitCLI.after_fit, checked under SpecAfter                  *)

\* Some mapping of the list rs holds key k.
InSome(rs, k) == \E i \in 1..Len(rs) : k \in DOMAIN rs[i]

\* The first / last mapping of rs that holds key k.
FirstWith(rs, k) ==
    CHOOSE i \in 1..Len(rs) :
        k \in DOMAIN rs[i] /\ \A j \in 1..(i - 1) : k \notin DOMAIN rs[j]
LastWith(rs, k) ==
    CHOOSE i \in 1..Len(rs) :
        k \in DOMAIN rs[i] /\ \A j \in (i + 1)..Len(rs) : k \notin DOMAIN rs[j]

AfterFitMerged == after.pc = "returned" /\ IsSome(metrics_json)

\* C1, as claimed: the merged mapping written to metrics.json resolves a key
\* held by a validation result and by a test result to the test result's
\* value (last writer wins, validation then test); a key held by one side
\* only keeps its value.
C1_TestValueWinsOnCollision ==
    AfterFitMerged =>
        LET r == Get(metrics_json)
            v == after.val_results
            t == after.test_results
        IN  /\ stdout = metrics_json
            /\ DOMAIN r = {k \in MetricKeys : InSome(v, k) \/ InSome(t, k)}
            /\ \A k \in DOMAIN r :
                 r[k] = IF InSome(t, k) THEN t[LastWith(t, k)][k]
                        ELSE v[LastWith(v, k)][k]

\* C1, amended: the merged mapping printed and written to metrics.json holds,
\* for every key, the value of the first mapping that has the key in the order
\* validation results, then test results: on a collision the validation
\* result's value is kept; a key held by one side only keeps its value.
C1_ValidationValueWinsOnCollision ==
    AfterFitMerged =>
        LET r == Get(metrics_json)
            v == after.val_results
            t == after.test_results
        IN  /\ stdout = metrics_json
            /\ DOMAIN r = {k \in MetricKeys : InSome(v, k) \/ InSome(t, k)}
            /\ \A k \in DOMAIN r :
                 r[k] = IF InSome(v, k) THEN v[FirstWith(v, k)][k]
                        ELSE t[FirstWith(t, k)][k]

\* The scenario of the specification: {valid_f1: 0.8} and
\* {valid_f1: 0.75, test_f1: 0.75} have been merged; valid_f1 stays 0.8.
C1_Witness ==
    /\ AfterFitMerged
    /\ after.val_results = << ("valid_f1" :> 80) >>
    /\ after.test_results = << ("valid_f1" :> 75) @@ ("test_f1" :> 75) >>
    /\ Get(metrics_json) = ("valid_f1" :> 80) @@ ("test_f1" :> 75)

\* The positions in the call log of the calls named op.
CallsOf(op) == {i \in 1..Len(calls) : calls[i].op = op}

\* C2: once after_fit has run with a non-empty best_model_path, validation was
\* called exactly once and before test, both with ckpt_path = best_model_path,
\* and metrics.json was written after both; with an empty best_model_path
\* after_fit returns having called neither and written no metrics.json.
C2_PostFitEvaluationOrder ==
    /\ after.pc = "fitted" => (calls = <<>> /\ metrics_json = None)
    /\ after.pc = "returned" =>
         IF best_model_path # ""
         THEN /\ Cardinality(CallsOf("validate")) = 1
              /\ Cardinality(CallsOf("test")) = 1
              /\ Cardinality(CallsOf("write metrics.json")) = 1
              /\ \A i \in CallsOf("validate"), j \in CallsOf("test"),
                    w \in CallsOf("write metrics.json") :
                       /\ i < j /\ j < w
                       /\ calls[i].ckpt_path = best_model_path
                       /\ calls[j].ckpt_path = best_model_path
              /\ IsSome(metrics_json)
         ELSE calls = <<>> /\ metrics_json = None

\* after_fit has evaluated a best checkpoint and written metrics.json.
C2_Witness ==
    /\ after.pc = "returned"
    /\ best_model_path = "epoch=02-valid_f1=80.00%.ckpt"
    /\ CallsOf("validate") = {1}
    /\ CallsOf("test") = {2}
    /\ IsSome(metrics_json)

----------------------------------------------------------------------------
(* Claims about LitCLI.before_fit, checked under SpecFit                   *)

BeforeFitRan == fit.pc \in {"returned", "raised"}

\* The attribute names listed in shared_attrs.
SharedNames == {shared_attrs[i] : i \in 1..Len(shared_attrs)}

\* C5: after before_fit, with a data module present and for every name in
\* shared_attrs: an attribute that exactly one of model and data module had is
\* on both with the value of the side that had it; an attribute both had keeps
\* both values; an attribute not in shared_attrs is unchanged on both sides;
\* with no data module the model's attributes are unchanged.
C5_ConfigSharing ==
    BeforeFitRan =>
        IF fit.datamodule0 # None
        THEN LET m0 == fit.model0.attrs
                 d0 == Get(fit.datamodule0).attrs
                 m1 == model.attrs
                 d1 == Get(datamodule).attrs
             IN  \A a \in AttrNames :
                   /\ (a \in SharedNames /\ HasAttr(m0, a) /\ ~HasAttr(d0, a))
                        => (m1[a] = m0[a] /\ d1[a] = m0[a])
                   /\ (a \in SharedNames /\ HasAttr(d0, a) /\ ~HasAttr(m0, a))
                        => (m1[a] = d0[a] /\ d1[a] = d0[a])
                   /\ (HasAttr(m0, a) /\ HasAttr(d0, a))
                        => (m1[a] = m0[a] /\ d1[a] = d0[a])
                   /\ a \notin SharedNames
                        => (m1[a] = m0[a] /\ d1[a] = d0[a])
        ELSE datamodule = None /\ model.attrs = fit.model0.attrs

\* before_fit has copied `transforms` from the data module to a model that
\* lacked it, and left a `version` that both had, with different values, alone.
C5_Witness ==
    /\ fit.pc = "returned"
    /\ fit.datamodule0 # None
    /\ SharedNames = {"transforms", "version"}
    /\ fit.model0.attrs["transforms"] = None
    /\ model.attrs["transforms"] = Some(<<"t","2">>)
    /\ model.attrs["version"] = Some(<<"L","r">>)
    /\ Get(datamodule).attrs["version"] = Some(<<"E","5">>)

\* The run's version as the claim derives it from the state before_fit starts
\* its naming in: the data source's version, if any, then "_" and the model's
\* version, if any.
C6_BaseVersion ==
    LET dv == IF datamodule # None THEN Get(datamodule).attrs["version"] ELSE None
        mv == model.attrs["version"]
    IN  IF IsSome(mv)
        THEN Some((IF IsSome(dv) THEN Get(dv) ELSE <<>>) \o <<"_">> \o Get(mv))
        ELSE dv

\* C6, as claimed: for every combination of data source present or absent and
\* data source and model with or without a version, before_fit completes
\* without raising; exp_name is model type + "_" + data-source type; version is
\* the data source's version, then "_" + the model's version when it has one,
\* then "_" + the MMDD-HHMMSS timestamp only when a version exists; the logger
\* is handed the lower-cased name, and the lower-cased version or, with no
\* version, keeps its own.
C6_RunNamingCompletes ==
    BeforeFitRan =>
        /\ fit.pc = "returned"
        /\ fit.exp_name =
             Some(model.type \o <<"_">> \o
                  (IF datamodule # None THEN Get(datamodule).type ELSE <<>>))
        /\ fit.version =
             IF Truthy(C6_BaseVersion)
             THEN Some(Get(C6_BaseVersion) \o <<"_">> \o Strftime(Get(fit.now)))
             ELSE C6_BaseVersion
        /\ ~logger.collection => logger._name = Lower(Get(fit.exp_name))
        /\ ~Truthy(fit.version) => logger._version = fit.logger0._version

\* C7: after before_fit, when PL_EXP_VERSION is set and non-empty the logger's
\* version is the one it had before; when it is unset, the logger is not a
\* LoggerCollection, has a _version attribute and a version was computed, the
\* logger's version is the lower-cased computed version.
C7_EnvOverridePrecedence ==
    BeforeFitRan =>
        /\ Truthy(env) => logger._version = fit.logger0._version
        /\ (/\ env = None
            /\ ~fit.logger0.collection
            /\ fit.logger0.has_version
            /\ fit.pc = "returned"
            /\ Truthy(fit.version))
             => /\ logger._version = Some(Lower(Get(fit.version)))
                /\ \A i \in 1..Len(Get(logger._version)) :
                      ~\E u \in 1..Len(UPPER) : Get(logger._version)[i] = UPPER[u]

\* before_fit has computed a version for a logger that could take it, with
\* PL_EXP_VERSION set, and the logger still has the version it started with.
C7_Witness ==
    /\ fit.pc = "returned"
    /\ env = Some(<<"X","7">>)
    /\ ~logger.collection
    /\ logger.has_version
    /\ Truthy(fit.version)
    /\ fit.logger0._version = Some(<<"V","0">>)
    /\ logger._version = Some(<<"V","0">>)

----------------------------------------------------------------------------
(* Claims about MMTSMatcher.common_step, checked under SpecStep            *)

\* The raw records of a batch whose prediction differs from the label, in
\* batch order.
RECURSIVE Misclassified(_)
Misclassified(batch) ==
    IF batch = <<>> THEN <<>>
    ELSE (IF Argmax(Head(batch).probs) # Label(Head(batch).raw)
          THEN <<Head(batch).raw>> ELSE <<>>)
         \o Misclassified(Tail(batch))

\* The lines that serialize a sequence of records, one after the other.
RECURSIVE Serialized(_)
Serialized(records) ==
    IF records = <<>> THEN <<>>
    ELSE JsonDumps(Head(records)) \o Serialized(Tail(records))

StepRuns == pending # None /\ pending' = None

\* C3: a test step that returns leaves the error-cases file as its earlier
\* content followed by exactly the serialized raw records of the mismatching
\* indices, in ascending index order (nothing when there is no mismatch); a
\* train or valid step, and a test step whose open fails, leave the file as
\* it was.
C3_ErrorCaptureExact ==
    [][StepRuns =>
         IF Get(pending).step = "test" /\ last'.outcome = "returned"
         THEN error_cases' = error_cases \o Serialized(Misclassified(Get(pending).batch))
         ELSE error_cases' = error_cases]_vars

\* A second test batch whose only mismatch is at index 1 (as with predictions
\* [1,0,1] against labels [1,1,1]) was scored on a file that already held a
\* record, and only that batch's record was appended after it.
C3_Witness ==
    /\ last.step = "test"
    /\ last.outcome = "returned"
    /\ last.errors = <<1>>
    /\ metrics["test"] = 2
    /\ appended = << << [k |-> "label", v |-> 0] >>,
                     << [k |-> "id", v |-> 1], [k |-> "label", v |-> 1] >> >>
    /\ error_cases = Serialized(appended)

RECURSIVE SumOfLines(_)
SumOfLines(records) ==
    IF records = <<>> THEN 0 ELSE (Len(Head(records)) + 2) + SumOfLines(Tail(records))

C11_LoggingFailureDoesNotAbort ==
    last.step = "test" => (last.outcome = "returned" /\ last.loss \in Losses)

----------------------------------------------------------------------------
(* Claims about collate_fn, checked under SpecCollate                      *)

\* Some sample of the batch has images and some other has none.
MixedImagePresence(batch) ==
    \E i, j \in 1..Len(batch) : batch[i].images = <<>> /\ batch[j].images # <<>>

\* C8, as claimed: collate_fn ends with an error, and returns no model input,
\* for every batch with mixed image presence, whichever kind of sample comes
\* first.
C8_MixedImagePresenceFails ==
    (collate_out.pc # "ready" /\ MixedImagePresence(collate_in.batch))
        => (collate_out.pc = "RuntimeError" /\ collate_out.inputs = None)

----------------------------------------------------------------------------
(* Claims about the datasets, checked under SpecData                       *)

ItemAccessed == got.outcome # "none"

\* The index reached a record: it was neither out of range nor unparsable.
RecordFound == ItemAccessed /\ got.outcome \notin {"JSONDecodeError", "IndexError"}

\* The record at the index of the last access (WDC: iloc's wrap-around).
C9_Record ==
    IF got.index >= 0 THEN corpus[got.index + 1] ELSE corpus[Len(corpus) + got.index + 1]

\* The name of the image file that matches a listing id: ALI's exact name,
\* WDC's first name of the form <id>_<suffix>; <<>> when there is none.
C9_Matching(id) ==
    IF dataset.class = "ALIDataset"
    THEN (IF imgs[IntStr(id)] # "absent" THEN <<IntStr(id)>> ELSE <<>>)
    ELSE LET present == {n \in 1..Len(WdcSuffixes) :
                            /\ (IntStr(id) \o "_" \o WdcSuffixes[n]) \in DOMAIN imgs
                            /\ imgs[IntStr(id) \o "_" \o WdcSuffixes[n]] # "absent"}
         IN  IF present = {} THEN <<>>
             ELSE <<IntStr(id) \o "_" \o
                    WdcSuffixes[CHOOSE n \in present : \A m \in present : n <= m]>>

\* C9, as claimed: with use_image set, every access that finds its record
\* returns a sample with exactly two images; a side's image is the matching
\* file's image when that file exists and is readable, and the white 256x256
\* fallback both when no file matches and when the matching file is unreadable.
C9_ImageFailureNeverPropagates ==
    (RecordFound /\ dataset._use_image) =>
        /\ got.outcome = "returned"
        /\ Len(Get(got.sample).images) = 2
        /\ \A n \in 1..2 :
             LET match == C9_Matching(Field(C9_Record, "id_" \o Sides[n]))
             IN  Get(got.sample).images[n] =
                   Transform(IF match # <<>> /\ imgs[match[1]] = "image"
                             THEN FileImage(match[1]) ELSE WhiteImage)

----------------------------------------------------------------------------
(* Claims about AliDataModule.prepare_data, checked under SpecPrep         *)

\* The two paths prepare_data works on.
PreparedPaths == {DataPath(hparams), TestPath(hparams)}

\* build_dataset was called for `path` by the last prepare_data call.
BuiltFor(path) == \E i \in 1..Len(prep.built) : prep.built[i] = path

\* What a prepare_data call that ended (returned or raised) has done, against
\* the files it found.
C12_LastCall ==
    prep.pc \in {"returned", "FileNotFoundError"} =>
        /\ \A p \in PreparedPaths :
              /\ BuiltFor(p) => ~Exists(prep.before, p)
              /\ Exists(prep.before, p) => fs[p] = prep.before[p]
        /\ prep.read <=> (\E p \in PreparedPaths : ~Exists(prep.before, p))
        /\ Len(prep.built) <= Cardinality(PreparedPaths)
        /\ prep.pc = "returned" =>
              /\ \A p \in PreparedPaths : BuiltFor(p) <=> ~Exists(prep.before, p)
              /\ \A p \in PreparedPaths : Exists(fs, p)
        /\ prep.pc = "FileNotFoundError" => (prep.built = <<>> /\ fs = prep.before)

\* A prepare_data call that follows one that returned.
C12_SecondCall ==
    (prep.pc = "returned" /\ prep'.n = prep.n + 1) =>
        (prep'.pc = "returned" /\ ~prep'.read /\ prep'.built = <<>> /\ fs' = fs)

\* C12: prepare_data decides on existence alone.  When it returns,
\* build_dataset was called for the corpus path exactly if that file was
\* missing and for the test path exactly if that file was missing; the source
\* table is read exactly if one of the two was missing; a file that existed
\* keeps its content whatever it is; both files exist afterwards, and a
\* prepare_data call after one that returned reads nothing, builds nothing
\* and changes no file.  When the source table cannot be read, the call raises
\* with nothing built and no file changed.
C12_CacheHitOnExistence == []C12_LastCall /\ [][C12_SecondCall]_vars

\* A first call found a truncated corpus file and no test file: it read the
\* source, built the test file only and left the truncated file as it was;
\* the second call then read and built nothing.
C12_Witness ==
    /\ prep.pc = "returned" /\ prep.n = 2
    /\ ~prep.read /\ prep.built = <<>>
    /\ fs[DataPath(hparams)] = Some(Content("truncated", hparams, None))
    /\ fs[TestPath(hparams)] = Some(Content("build_dataset", hparams, Some(TestSize)))
    /\ IsSome(hparams.cate_name)

====
